---- MODULE Spec2Model ----
(***************************************************************************)
(* Model of scripts/ocr_server.py: the texify recognition command.  One    *)
(* run of main() is a sequence of steps; every library call is a step      *)
(* whose outcome (text written to sys.stdout, return value, exception) is  *)
(* chosen nondeterministically.  Strings are sequences of one-character    *)
(* strings.                                                                *)
(***************************************************************************)
EXTENDS Integers, Sequences, FiniteSets

\* ------------------------------------------------------------------ bounds
MaxLen == 5     \* longest recognized text drawn from Alphabet

\* --------------------------------------------------------------- alphabet
Alphabet == {"$", " ", "x"}

IsSpace(c) == c \in {" ", "\t", "\n", "\r"}

AllStrings(n) == UNION {[1..k -> Alphabet] : k \in 0..n}

\* the two worked examples of the recognized text
ExampleTexts == { <<"$", "$", "x", "^", "2", "$", "$">>, <<"$", "y", "$">>,
                  <<" ", "$", "$", " ", "x", "$", "$", " ">> }

Texts == AllStrings(MaxLen) \cup ExampleTexts

\* ------------------------------------------------------- python str helpers
RECURSIVE LStrip(_)
LStrip(s) == IF s # <<>> /\ IsSpace(Head(s)) THEN LStrip(Tail(s)) ELSE s

RECURSIVE RStrip(_)
RStrip(s) == IF s # <<>> /\ IsSpace(s[Len(s)])
             THEN RStrip(SubSeq(s, 1, Len(s) - 1)) ELSE s

\* str.strip()
Strip(s) == RStrip(LStrip(s))

\* str.startswith(p), str.endswith(p)
StartsWith(s, p) == Len(s) >= Len(p) /\ SubSeq(s, 1, Len(p)) = p
EndsWith(s, p) == Len(s) >= Len(p) /\ SubSeq(s, Len(s) - Len(p) + 1, Len(s)) = p

\* s[k:-k]
Slice(s, k) == SubSeq(s, k + 1, Len(s) - k)

\* lines 66-71: strip, then remove a wrapping $$...$$ or $...$
CleanLatexSwapped(s) ==
    LET t == Strip(s) IN
    IF StartsWith(t, <<"$">>) /\ EndsWith(t, <<"$">>) THEN Strip(Slice(t, 1))
    ELSE IF StartsWith(t, <<"$", "$">>) /\ EndsWith(t, <<"$", "$">>) THEN Strip(Slice(t, 2))
    ELSE t

CleanLatex(s) ==
    LET t == Strip(s) IN
    IF StartsWith(t, <<"$", "$">>) /\ EndsWith(t, <<"$", "$">>) THEN Strip(Slice(t, 2))
    ELSE IF StartsWith(t, <<"$">>) /\ EndsWith(t, <<"$">>) THEN Strip(Slice(t, 1))
    ELSE t

\* ------------------------------------------------------- inference results
\* a python value that may or may not be a str
StrVal(s) == [t |-> "str", s |-> s]
NoneVal == [t |-> "none", s |-> <<>>]

SmallTexts == { <<"$", "x", "$">>, <<" ", "x">> }
Values == {StrVal(s) : s \in SmallTexts} \cup {NoneVal}

ReprText == <<"x", " ">>           \* what str(result) returns for a non-str

\* one element of the list batch_inference returns
StrResult(s) == [kind |-> "str", repr |-> s, hasText |-> FALSE, text |-> NoneVal,
                 keys |-> {}, dtext |-> NoneVal, dlatex |-> NoneVal]

ObjResults == [kind : {"obj"}, repr : {ReprText}, hasText : BOOLEAN, text : Values,
               keys : {{}}, dtext : {NoneVal}, dlatex : {NoneVal}]

DictResults == [kind : {"dict"}, repr : {ReprText}, hasText : {FALSE}, text : {NoneVal},
                keys : SUBSET {"text", "latex"}, dtext : Values, dlatex : Values]

Results == {StrResult(s) : s \in Texts} \cup ObjResults \cup DictResults

\* what batch_inference may return: None, [], [r] or [r, r2]
ResultLists ==
    {[returned |-> TRUE, isNone |-> TRUE, items |-> <<>>],
     [returned |-> TRUE, isNone |-> FALSE, items |-> <<>>]}
    \cup {[returned |-> TRUE, isNone |-> FALSE, items |-> <<r>>] : r \in Results}
    \cup {[returned |-> TRUE, isNone |-> FALSE, items |-> <<StrResult(<<"x">>), r>>] :
             r \in ObjResults}

\* line 54: results and len(results) > 0
Truthy(rs) == ~rs.isNone /\ Len(rs.items) > 0

\* lines 57-64 with every branch coerced through str()
NormalizeCoerced(r) ==
    LET v == IF r.kind = "str" THEN StrVal(r.repr)
             ELSE IF r.hasText THEN r.text
             ELSE IF r.kind = "dict" THEN
                  IF "text" \in r.keys THEN r.dtext
                  ELSE IF "latex" \in r.keys THEN r.dlatex
                  ELSE StrVal(r.repr)
             ELSE StrVal(r.repr)
    IN IF v.t = "str" THEN v ELSE StrVal(<<"N", "o", "n", "e">>)

\* lines 57-64: isinstance str / hasattr text / dict.get / str()
Normalize(r) ==
    IF r.kind = "str" THEN StrVal(r.repr)
    ELSE IF r.hasText THEN r.text
    ELSE IF r.kind = "dict" THEN
         IF "text" \in r.keys THEN r.dtext
         ELSE IF "latex" \in r.keys THEN r.dlatex
         ELSE StrVal(r.repr)
    ELSE StrVal(r.repr)

\* ------------------------------------------------------------ environment
Prog == <<"o">>
Paths == { <<"p">>, <<"q", "p">> }
Argvs == {<<Prog>>} \cup {<<Prog, p>> : p \in Paths}
         \cup {<<Prog, <<"p">>, <<"q", "p">> >>}

Modes == {"RGB", "L", "RGBA"}

\* text a library may write to sys.stdout during one call
LibLogs == { <<>>, <<[kind |-> "text", obj |-> [text |-> <<"loading">>]]>> }

\* ------------------------------------------------------------ JSON objects
Confidence == 95       \* 0.95, in hundredths

UsageMessage == <<"usage: ocr_engine <image_path>">>

UsageObjectWrongKey == [usage |-> UsageMessage]

\* line 21
UsageObject == [error |-> UsageMessage]
EmptyMessage == <<"empty result">>

NotFoundMessageNoPath(path) == <<"image file does not exist: ">>

\* line 27: f"...: {image_path}"
NotFoundMessage(path) == <<"image file does not exist: ">> \o path

JsonLine(obj) == [kind |-> "json", obj |-> obj]

\* ------------------------------------------------------------- exceptions
NoExc == [type |-> "none", msg |-> <<>>]
LibError(step) == [type |-> "RuntimeError", msg |-> <<"failed: ", step>>]
StripError == [type |-> "AttributeError", msg |-> <<"no attribute 'strip'">>]

CaughtBare(type) == TRUE

\* line 78: except Exception -- SystemExit derives from BaseException only
Caught(type) == type # "SystemExit"

\* needs conversion, alpha images only
NeedsConvertAlpha(mode) == mode = "RGBA"

\* line 49
NeedsConvert(mode) == mode # "RGB"

\* --------------------------------------------------------------- state
VARIABLES
    pc,          \* position in main
    argv,        \* sys.argv
    fs,          \* paths that exist on disk
    sysStdout,   \* the stream sys.stdout is bound to: "stdout" or "stderr"
    stdout,      \* lines on the process's original standard output
    stderr,      \* lines on the diagnostic stream
    exitStatus,  \* exit status, meaningful when pc = "exited"
    image,       \* the decoded image
    batch,       \* argument list of the batch_inference call
    results,     \* value batch_inference returned
    exc,         \* exception being handled
    steps        \* history: the steps performed so far

vars == <<pc, argv, fs, sysStdout, stdout, stderr, exitStatus, image, batch,
          results, exc, steps>>

NoImage == [mode |-> "none", decoded |-> "none", converted |-> FALSE]
NoResults == [returned |-> FALSE, isNone |-> TRUE, items |-> <<>>]

Init ==
    /\ pc = "args"
    /\ argv \in Argvs
    /\ fs \in SUBSET Paths
    /\ sysStdout = "stdout"       \* sys.stdout is the original standard output
    /\ stdout = <<>>
    /\ stderr = <<>>
    /\ exitStatus = 0
    /\ image = NoImage
    /\ batch = <<>>
    /\ results = NoResults
    /\ exc = NoExc
    /\ steps = <<>>

\* write lines to whatever sys.stdout is bound to
WriteOut(lines) ==
    /\ stdout' = IF sysStdout = "stdout" THEN stdout \o lines ELSE stdout
    /\ stderr' = IF sysStdout = "stderr" THEN stderr \o lines ELSE stderr

Exit(status) ==
    /\ pc' = "exited"
    /\ exitStatus' = status

\* an exception raised inside the try block (lines 30-81)
RaiseInTry(e) ==
    IF Caught(e.type)
    THEN /\ pc' = "handler"
         /\ exc' = e
         /\ UNCHANGED exitStatus
    ELSE /\ Exit(1)              \* SystemExit(1) leaves main
         /\ UNCHANGED exc

\* lines 20-22
CheckArgs ==
    /\ pc = "args"
    /\ IF Len(argv) < 2
       THEN /\ WriteOut(<<JsonLine(UsageObject)>>)
            /\ Exit(1)
            /\ steps' = steps \o <<"argcheck", "emit", "exit">>
       ELSE /\ pc' = "path"
            /\ steps' = Append(steps, "argcheck")
            /\ UNCHANGED <<stdout, stderr, exitStatus>>
    /\ UNCHANGED <<argv, fs, sysStdout, image, batch, results, exc>>

\* lines 24-28
CheckPath ==
    /\ pc = "path"
    /\ LET image_path == argv[2] IN
       IF image_path \notin fs
       THEN /\ WriteOut(<<JsonLine([error |-> NotFoundMessage(image_path)])>>)
            /\ Exit(1)
            /\ steps' = steps \o <<"pathcheck", "emit", "exit">>
       ELSE /\ pc' = "import"
            /\ steps' = Append(steps, "pathcheck")
            /\ UNCHANGED <<stdout, stderr, exitStatus>>
    /\ UNCHANGED <<argv, fs, sysStdout, image, batch, results, exc>>

\* a library call that returns nothing the model keeps: it may write to
\* sys.stdout, then returns (continue at next) or raises
LibStep(here, name, next) ==
    /\ pc = here
    /\ \E log \in LibLogs, ok \in BOOLEAN :
         /\ WriteOut(log)
         /\ steps' = Append(steps, name)
         /\ IF ok THEN pc' = next /\ UNCHANGED <<exc, exitStatus>>
                  ELSE RaiseInTry(LibError(name))
    /\ UNCHANGED <<argv, fs, sysStdout, image, batch, results>>

\* lines 31-37
ImportLibs == LibStep("import", "import", "redirect")

\* lines 40-41
RedirectStdout ==
    /\ pc = "redirect"
    /\ sysStdout' = "stderr"
    /\ pc' = "load_model"
    /\ UNCHANGED <<argv, fs, stdout, stderr, exitStatus, image, batch, results,
                   exc, steps>>

\* line 43
LoadModel == LibStep("load_model", "load_model", "load_processor")

\* line 44
LoadProcessor == LibStep("load_processor", "load_processor", "restore")

\* line 46
RestoreStdout ==
    /\ pc = "restore"
    /\ sysStdout' = "stdout"
    /\ pc' = "open"
    /\ UNCHANGED <<argv, fs, stdout, stderr, exitStatus, image, batch, results,
                   exc, steps>>

\* line 48
OpenImage ==
    /\ pc = "open"
    /\ \E log \in LibLogs, ok \in BOOLEAN, mode \in Modes :
         /\ WriteOut(log)
         /\ steps' = Append(steps, "open")
         /\ IF ok THEN /\ image' = [mode |-> mode, decoded |-> mode, converted |-> FALSE]
                       /\ pc' = "convert"
                       /\ UNCHANGED <<exc, exitStatus>>
                  ELSE /\ RaiseInTry(LibError("open"))
                       /\ UNCHANGED image
    /\ UNCHANGED <<argv, fs, sysStdout, batch, results>>

\* lines 49-50
ConvertImage ==
    /\ pc = "convert"
    /\ IF NeedsConvert(image.mode)
       THEN \E log \in LibLogs, ok \in BOOLEAN :
              /\ WriteOut(log)
              /\ steps' = Append(steps, "convert")
              /\ IF ok THEN /\ image' = [image EXCEPT !.mode = "RGB", !.converted = TRUE]
                            /\ pc' = "infer"
                            /\ UNCHANGED <<exc, exitStatus>>
                       ELSE /\ RaiseInTry(LibError("convert"))
                            /\ UNCHANGED image
       ELSE /\ pc' = "infer"
            /\ UNCHANGED <<stdout, stderr, steps, image, exc, exitStatus>>
    /\ UNCHANGED <<argv, fs, sysStdout, batch, results>>

\* line 52, with the call repeated once when it raises
InferenceRetry ==
    /\ pc = "infer"
    /\ \E log \in LibLogs, ok \in BOOLEAN, rs \in ResultLists :
         /\ WriteOut(log)
         /\ steps' = Append(steps, "inference")
         /\ batch' = <<image>>
         /\ IF ok THEN /\ results' = rs
                       /\ pc' = "post"
                       /\ UNCHANGED <<exc, exitStatus>>
            ELSE IF "inference" \notin {steps[i] : i \in 1..Len(steps)}
                 THEN UNCHANGED <<pc, results, exc, exitStatus>>
                 ELSE /\ RaiseInTry(LibError("inference"))
                      /\ UNCHANGED results
    /\ UNCHANGED <<argv, fs, sysStdout, image>>

\* line 52
Inference ==
    /\ pc = "infer"
    /\ \E log \in LibLogs, ok \in BOOLEAN, rs \in ResultLists :
         /\ WriteOut(log)
         /\ steps' = Append(steps, "inference")
         /\ batch' = <<image>>
         /\ IF ok THEN /\ results' = rs
                       /\ pc' = "post"
                       /\ UNCHANGED <<exc, exitStatus>>
                  ELSE /\ RaiseInTry(LibError("inference"))
                       /\ UNCHANGED results
    /\ UNCHANGED <<argv, fs, sysStdout, image>>

\* lines 54-76
PostProcess ==
    /\ pc = "post"
    /\ IF Truthy(results)
       THEN LET latex == Normalize(results.items[1]) IN
            IF latex.t = "str"
            THEN /\ WriteOut(<<JsonLine([latex |-> CleanLatex(latex.s),
                                         confidence |-> Confidence])>>)
                 /\ Exit(0)            \* main returns
                 /\ steps' = steps \o <<"emit", "exit">>
                 /\ UNCHANGED exc
            ELSE /\ RaiseInTry(StripError)      \* line 66 on a non-str
                 /\ UNCHANGED <<stdout, stderr, steps>>
       ELSE /\ WriteOut(<<JsonLine([error |-> EmptyMessage])>>)
            /\ RaiseInTry([type |-> "SystemExit", msg |-> <<"1">>])
            /\ steps' = steps \o (IF pc' = "exited" THEN <<"emit", "exit">>
                                                    ELSE <<"emit">>)
    /\ UNCHANGED <<argv, fs, sysStdout, image, batch, results>>

\* lines 78-81
ExceptHandler ==
    /\ pc = "handler"
    /\ WriteOut(<<JsonLine([error |-> exc.msg,
                            traceback |-> <<"Traceback: ", exc.type>> \o exc.msg])>>)
    /\ Exit(1)
    /\ steps' = steps \o <<"emit", "exit">>
    /\ UNCHANGED <<argv, fs, sysStdout, image, batch, results, exc>>

Next ==
    \/ CheckArgs
    \/ CheckPath
    \/ ImportLibs
    \/ RedirectStdout
    \/ LoadModel
    \/ LoadProcessor
    \/ RestoreStdout
    \/ OpenImage
    \/ ConvertImage
    \/ Inference
    \/ PostProcess
    \/ ExceptHandler

Spec == Init /\ [][Next]_vars

TypeOK ==
    /\ pc \in {"args", "path", "import", "redirect", "load_model", "load_processor",
               "restore", "open", "convert", "infer", "post", "handler", "exited"}
    /\ sysStdout \in {"stdout", "stderr"}
    /\ exitStatus \in {0, 1}

\* ------------------------------------------------------------ properties
Exited == pc = "exited"

JsonLines(stream) == SelectSeq(stream, LAMBDA l : l.kind = "json")
TextLines(stream) == SelectSeq(stream, LAMBDA l : l.kind = "text")

IsErrorObj(o) == "error" \in DOMAIN o /\ "latex" \notin DOMAIN o
IsLatexObj(o) == /\ {"latex", "confidence"} \subseteq DOMAIN o
                 /\ "error" \notin DOMAIN o
                 /\ o.confidence = 95

StepSet == {steps[i] : i \in 1..Len(steps)}

Contains(msg, sub) ==
    \E i \in 1..(Len(msg) - Len(sub) + 1) : SubSeq(msg, i, i + Len(sub) - 1) = sub

AllSpace(s) == \A i \in 1..Len(s) : IsSpace(s[i])

\* t is s without its leading and trailing whitespace
IsTrimOf(t, s) ==
    /\ t = <<>> \/ (~IsSpace(t[1]) /\ ~IsSpace(t[Len(t)]))
    /\ \E a \in 0..Len(s) :
         /\ a + Len(t) <= Len(s)
         /\ SubSeq(s, a + 1, a + Len(t)) = t
         /\ AllSpace(SubSeq(s, 1, a))
         /\ AllSpace(SubSeq(s, a + Len(t) + 1, Len(s)))

\* C1: whatever the libraries write to sys.stdout, the result channel never
\* holds library text, and at exit it holds exactly one line, the JSON result.
C1_OnlyJsonOnResultChannel ==
    /\ TextLines(stdout) = <<>>
    /\ Exited => Len(stdout) = 1 /\ stdout[1].kind = "json"

\* C2: when a step of the recognition attempt raised, the result channel holds
\* exactly one JSON object, its error is the exception's message, nothing was
\* written as JSON to the diagnostic stream, and the exit status is 1.
C2_ExceptionReachesResultChannel ==
    (Exited /\ exc # NoExc) =>
        /\ Len(JsonLines(stdout)) = 1
        /\ IsErrorObj(JsonLines(stdout)[1].obj)
        /\ JsonLines(stdout)[1].obj.error = exc.msg
        /\ JsonLines(stderr) = <<>>
        /\ exitStatus = 1

\* C3: every terminated run has emitted exactly one object on the result
\* channel; exit status 0 goes with a latex object, exit status 1 with an
\* error object.
C3_ShapeMatchesExit ==
    Exited =>
        /\ Len(JsonLines(stdout)) = 1
        /\ LET o == JsonLines(stdout)[1].obj IN
             /\ IsLatexObj(o) \/ IsErrorObj(o)
             /\ exitStatus = 0 <=> IsLatexObj(o)
             /\ exitStatus = 1 <=> IsErrorObj(o)

\* C4: a run without an argument writes exactly one error object to standard
\* output and exits 1, having neither imported or called the library nor
\* looked at the filesystem.
C4_NoArgument ==
    (Exited /\ Len(argv) < 2) =>
        /\ Len(stdout) = 1
        /\ stdout[1].kind = "json"
        /\ IsErrorObj(stdout[1].obj)
        /\ stderr = <<>>
        /\ exitStatus = 1
        /\ steps = <<"argcheck", "emit", "exit">>
        /\ image = NoImage /\ batch = <<>> /\ ~results.returned

C4_Witness == Exited /\ Len(argv) < 2 /\ Len(stdout) = 1

\* C5: a run on a path that does not exist writes exactly one error object
\* whose message contains the path and exits 1; model, processor and
\* inference are never reached.
C5_MissingFile ==
    (Exited /\ Len(argv) >= 2 /\ argv[2] \notin fs) =>
        /\ Len(stdout) = 1
        /\ stdout[1].kind = "json"
        /\ IsErrorObj(stdout[1].obj)
        /\ Contains(stdout[1].obj.error, argv[2])
        /\ exitStatus = 1
        /\ StepSet \cap {"import", "load_model", "load_processor", "open",
                         "inference"} = {}
        /\ batch = <<>> /\ ~results.returned

C5_Witness ==
    /\ Exited /\ Len(argv) >= 2 /\ argv[2] \notin fs
    /\ fs # {} /\ Len(stdout) = 1

\* the latex emitted by a successful run whose first result is the str r
C6_Case(r) ==
    /\ Exited /\ exitStatus = 0
    /\ results.returned /\ Truthy(results)
    /\ results.items[1].kind = "str" /\ results.items[1].repr = r

\* C6: on a successful run the emitted latex is the recognized text stripped
\* and unwrapped: text w1 d s d w2 with w1, w2 whitespace, d one of "", "$",
\* "$$" and s free of "$" yields s stripped; "$$x^2$$" yields "x^2", "$y$"
\* yields "y"; the latex is never longer than the recognized text.
C6_Unwrapped ==
    (Exited /\ exitStatus = 0 /\ results.returned /\ Truthy(results)
       /\ results.items[1].kind = "str") =>
        LET r == results.items[1].repr
            out == JsonLines(stdout)
            L == out[Len(out)].obj.latex
        IN
        /\ Len(out) = 1
        /\ IsLatexObj(out[1].obj)
        /\ Len(L) <= Len(r)
        /\ \A a \in 0..Len(r), b \in 0..Len(r), d \in 0..2 :
             (/\ a + 2 * d <= b
              /\ AllSpace(SubSeq(r, 1, a))
              /\ AllSpace(SubSeq(r, b + 1, Len(r)))
              /\ \A i \in 1..d : r[a + i] = "$" /\ r[b + 1 - i] = "$"
              /\ \A i \in (a + d + 1)..(b - d) : r[i] # "$")
             => IsTrimOf(L, SubSeq(r, a + d + 1, b - d))
        /\ r = <<"$", "$", "x", "^", "2", "$", "$">> => L = <<"x", "^", "2">>
        /\ r = <<"$", "y", "$">> => L = <<"y">>

C6_Witness ==
    /\ C6_Case(<<" ", "$", "$", " ", "x", "$", "$", " ">>)
    /\ JsonLines(stdout)[1].obj.latex = <<"x">>

\* C7: when batch_inference returns an empty or falsy list the run writes
\* exactly one error object to standard output and exits 1; the handler is
\* never entered, so there is no second object and no traceback.
C7_EmptyResult ==
    (results.returned /\ ~Truthy(results)) =>
        /\ pc \in {"post", "exited"}
        /\ exc = NoExc
        /\ Exited =>
             /\ Len(JsonLines(stdout)) = 1
             /\ DOMAIN JsonLines(stdout)[1].obj = {"error"}
             /\ JsonLines(stderr) = <<>>
             /\ exitStatus = 1

C7_Witness ==
    /\ Exited /\ results.returned /\ ~results.isNone /\ results.items = <<>>
    /\ Len(JsonLines(stdout)) = 1

StepRank(st) ==
    CASE st = "argcheck" -> 1
      [] st = "pathcheck" -> 2
      [] st = "import" -> 3
      [] st = "load_model" -> 4
      [] st = "load_processor" -> 5
      [] st = "open" -> 6
      [] st = "convert" -> 7
      [] st = "inference" -> 8
      [] st = "emit" -> 9
      [] st = "exit" -> 10

AllJson == JsonLines(stdout) \o JsonLines(stderr)

C8_Order ==
    /\ \A i \in 1..Len(steps), j \in 1..Len(steps) :
         i < j => StepRank(steps[i]) < StepRank(steps[j])
    /\ Exited => /\ Len(steps) >= 2
                 /\ steps[Len(steps) - 1] = "emit"
                 /\ steps[Len(steps)] = "exit"
                 /\ Len(AllJson) = 1
    /\ ~Exited => "exit" \notin StepSet
    /\ exc # NoExc => \A i \in 1..Len(AllJson) : ~IsLatexObj(AllJson[i].obj)
    /\ \A i \in 1..Len(AllJson) :
         IsErrorObj(AllJson[i].obj) => (i = Len(AllJson) /\ pc \in {"exited", "handler"})

\* position of a control point in main
PcRank(p) ==
    CASE p = "args" -> 1
      [] p = "path" -> 2
      [] p = "import" -> 3
      [] p = "redirect" -> 4
      [] p = "load_model" -> 5
      [] p = "load_processor" -> 6
      [] p = "restore" -> 7
      [] p = "open" -> 8
      [] p = "convert" -> 9
      [] p = "infer" -> 10
      [] p = "post" -> 11
      [] p = "handler" -> 12
      [] p = "exited" -> 13

\* C8: the steps of a run happen at most once each, in the fixed order
\* argument check, path check, import, model load, processor load, decode,
\* convert, inference, emission, exit; nothing follows a failure but the one
\* error emission; every step moves main forward and a run that has not
\* exited always has a next step, so the run terminates with one result.
C8_RunToCompletion ==
    /\ [](C8_Order /\ (~Exited => ENABLED Next))
    /\ [][PcRank(pc') > PcRank(pc)]_vars

C8_Witness == Exited /\ exitStatus = 0 /\ "convert" \in StepSet

\* the value the result shape selects
C9_Selected(r) ==
    CASE r.kind = "str" -> StrVal(r.repr)
      [] r.kind # "str" /\ r.hasText -> r.text
      [] r.kind = "dict" /\ ~r.hasText /\ "text" \in r.keys -> r.dtext
      [] r.kind = "dict" /\ ~r.hasText /\ "text" \notin r.keys /\ "latex" \in r.keys
           -> r.dlatex
      [] OTHER -> StrVal(r.repr)

\* C9: the first result is normalized by shape (str, text attribute, dict
\* text entry, dict latex entry, str()); when the selected value is a string
\* the run emits the latex object made from it and exits 0, otherwise it ends
\* with an error object and exit 1.
C9_Normalized ==
    (Exited /\ results.returned /\ Truthy(results)) =>
        LET sel == C9_Selected(results.items[1])
            out == JsonLines(stdout)
        IN
        /\ Len(out) = 1
        /\ IF sel.t = "str"
           THEN /\ IsLatexObj(out[1].obj)
                /\ out[1].obj.latex = CleanLatex(sel.s)
                /\ exitStatus = 0
           ELSE /\ IsErrorObj(out[1].obj)
                /\ exitStatus = 1

C9_Witness ==
    /\ Exited /\ results.returned /\ Truthy(results)
    /\ results.items[1].kind = "dict"
    /\ results.items[1].keys = {"latex"}
    /\ results.items[1].dlatex = NoneVal
    /\ exitStatus = 1

\* C10: batch_inference is called with one image, in mode RGB; the image was
\* converted exactly when it was decoded in another mode.
C10_SingleRgbBatch ==
    batch # <<>> =>
        /\ Len(batch) = 1
        /\ batch[1].mode = "RGB"
        /\ batch[1].converted <=> batch[1].decoded # "RGB"

C10_Witness == batch # <<>> /\ batch[1].decoded = "L" /\ batch[1].converted
====
